---- MODULE Spec2Model ----
(***************************************************************************)
(* State-machine model of the session state of the vocabulary client       *)
(* (src/App.tsx) and of the calls it consumes (src/unnamed/part_001:        *)
(* lookupTerm, generateStoryFromWords, playTTS).                           *)
(*                                                                         *)
(* Strings.  A term or a raw query is a pair <<w, c>>: the word number w   *)
(* written in lower case (c = FALSE) or capitalised (c = TRUE).  Word 0 is *)
(* the empty word: <<0, FALSE>> is the empty string "" and <<0, TRUE>> is  *)
(* a non-empty string of white space.                                      *)
(*                                                                         *)
(* Nullable React state (currentEntry, storyData) is a sequence of length  *)
(* 0 (null) or 1.                                                          *)
(***************************************************************************)
EXTENDS Integers, Sequences, FiniteSets, TLC

\* ------------------------------------------------------------------ bounds
\* distinct words the user types in the session
NumWords == 1
\* largest value of the millisecond clock read by Date.now()
MaxClock == 1
\* lookups started in one session
MaxLookups == 2
\* story generations started in one session
MaxStories == 2
\* external calls of one class in flight at the same time
MaxInFlight == 2
\* restarts of the process on the same store
MaxRestarts == 1

\* ------------------------------------------------------- program constants
\* App.tsx:224  .slice(0, 20)
HistoryCap == 20
\* App.tsx:264  .slice(0, 10)
StoryCap == 10
\* App.tsx:260  notebook.slice(0, 10)
StoryWords == 10
\* App.tsx:255  notebook.length < 3
MinStoryWords == 3

VARIABLES
  view,          \* App.tsx:157  ViewMode
  searchTerm,    \* App.tsx:158
  loading,       \* App.tsx:159
  currentEntry,  \* App.tsx:160  (<<>> is null)
  notebook,      \* App.tsx:163
  history,       \* App.tsx:164
  storyHistory,  \* App.tsx:165
  storyData,     \* App.tsx:169  (<<>> is null)
  loadingStory,  \* App.tsx:170
  fcIndex,       \* App.tsx:177
  fcFlipped,     \* App.tsx:178
  fcSource,      \* App.tsx:179
  verbFilter,    \* App.tsx:180
  lookups,       \* lookupTerm calls awaiting their response (App.tsx:218)
  composing,     \* generateStoryFromWords calls awaiting their response (App.tsx:262)
  now,           \* the last value read from Date.now()
  alerted,       \* the last window.alert shown ("none" before the first)
  crashed,       \* a render threw: the React tree is unmounted
  lookupsLeft,   \* lookups the session may still start
  storiesLeft,   \* story generations the session may still start
  appended,      \* every story handed to setStoryHistory, oldest first
  localStorage,  \* the three blobs of window.localStorage (App.tsx:183-202)
  phase,         \* "start" before App is mounted, "mounted" after its first
                 \* commit, "running" once the loaded state is rendered
  previous,      \* the collections each earlier session ended with
  playing,       \* App.tsx:16  the mounted AudioButtons whose playing is true
  speaking       \* playTTS calls awaiting their end (App.tsx:21)

vars == <<view, searchTerm, loading, currentEntry, notebook, history,
          storyHistory, storyData, loadingStory, fcIndex, fcFlipped,
          fcSource, verbFilter, lookups, composing, now, alerted, crashed,
          lookupsLeft, storiesLeft, appended, localStorage, phase, previous,
          playing, speaking>>

\* ----------------------------------------------------------------- strings
EmptyString == <<0, FALSE>>
BlankString == <<0, TRUE>>

\* String.prototype.toLowerCase
ToLowerCase(s) == <<s[1], FALSE>>

\* String.prototype.trim: white space only becomes the empty string
Trim(s) == IF s[1] = 0 THEN EmptyString ELSE s

\* JavaScript truthiness of a string: every string but ""
Truthy(s) == s # EmptyString

\* ------------------------------------------------------- sequence helpers
\* Array.prototype.slice(0, n)
Slice0(s, n) == IF Len(s) <= n THEN s ELSE SubSeq(s, 1, n)

\* Array.prototype.map(w => w.term)
MapTerm(s) == [i \in 1..Len(s) |-> s[i].term]

\* the sequence s without its i-th element
RemoveAt(s, i) == SubSeq(s, 1, i - 1) \o SubSeq(s, i + 1, Len(s))

\* ------------------------------------------------------------ input sets
Words == 1..NumWords
\* the terms the resolver may answer with
Terms == Words \X BOOLEAN
\* what the user may type into the search box
Typed == (0..NumWords) \X BOOLEAN
\* the millisecond clock
Clock == 0..MaxClock

\* what the resolver may answer to the raw input q: the input as typed, or
\* its canonical lower-case form
Answers(q) == {[term |-> q], [term |-> ToLowerCase(q)]}

\* the static verb catalog (./data/verbList): an AR, an ER and an IR verb,
\* the first being a word the user also types; a Chinese text (cn, a
\* definition, a translation) is a number, 0 being the empty string
COMMON_VERBS ==
  << [word |-> <<1, FALSE>>, type |-> "ar", cn |-> 3],
     [word |-> <<NumWords + 1, FALSE>>, type |-> "er", cn |-> 4],
     [word |-> <<NumWords + 2, FALSE>>, type |-> "ir", cn |-> 5] >>

\* verbFilter.toLowerCase()
FilterToLowerCase(f) ==
  CASE f = "AR" -> "ar" [] f = "ER" -> "er" [] f = "IR" -> "ir" [] OTHER -> "all"

\* ---------------------------------------------------------- pure functions
\* LookupEntry keeping the canonical term as the query
LookupEntryCanonicalQuery(term, data, clock) ==
  [id |-> clock, original_query |-> data.term, term |-> data.term]

\* lookupTerm's return value for the raw input term and the parsed response
\* data (the response schema has no id and no original_query)
LookupEntry(term, data, clock) ==
  [id |-> clock, original_query |-> term, term |-> data.term]

\* generateStoryFromWords' return value for a response with a story in it
\* (its text is text 1; cn_translation goes with pt_story and is left out)
StoryOf(words, clock) == [id |-> clock, words_used |-> words, pt_story |-> 1]

\* generateStoryFromWords' return value for a response without text, which
\* it parses as "{}": an object with no story in it
EmptyStoryOf(words, clock) == [id |-> clock, words_used |-> words]

\* RecordHistory comparing terms as typed
RecordHistoryExactCase(entry, prev) ==
  LET filtered == SelectSeq(prev, LAMBDA h : h.term # entry.term)
  IN  Slice0(<<entry>> \o filtered, HistoryCap)

\* RecordHistory keeping one entry too many
RecordHistoryOffByOne(entry, prev) ==
  LET filtered == SelectSeq(prev, LAMBDA h :
                      ToLowerCase(h.term) # ToLowerCase(entry.term))
  IN  Slice0(<<entry>> \o filtered, HistoryCap + 1)

\* the updater handed to setHistory by handleSearch
RecordHistory(entry, prev) ==
  LET filtered == SelectSeq(prev, LAMBDA h :
                      ToLowerCase(h.term) # ToLowerCase(entry.term))
  IN  Slice0(<<entry>> \o filtered, HistoryCap)

\* notebook.find(n => n.term === term) is not undefined
Saved(nb, term) == \E i \in 1..Len(nb) : nb[i].term = term

\* ToggleNotebook as an upsert: a saved term is replaced by the new entry
ToggleNotebookUpsert(e, nb) ==
  IF Saved(nb, e.term)
  THEN <<e>> \o SelectSeq(nb, LAMBDA n : n.term # e.term)
  ELSE <<e>> \o nb

\* ToggleNotebook saving at the end of the list
ToggleNotebookAppend(e, nb) ==
  IF Saved(nb, e.term)
  THEN SelectSeq(nb, LAMBDA n : n.term # e.term)
  ELSE nb \o <<e>>

\* ToggleNotebook looking the entry up by what the user typed
ToggleNotebookByQuery(e, nb) ==
  IF \E i \in 1..Len(nb) : nb[i].original_query = e.original_query
  THEN SelectSeq(nb, LAMBDA n : n.original_query # e.original_query)
  ELSE <<e>> \o nb

\* the notebook toggleSave produces for the current entry e
ToggleNotebook(e, nb) ==
  IF Saved(nb, e.term)
  THEN SelectSeq(nb, LAMBDA n : n.term # e.term)
  ELSE <<e>> \o nb

\* StoryWordsOf sending every saved term
StoryWordsAll(nb) == MapTerm(nb)

\* the words handleGenerateStory sends to the composer
StoryWordsOf(nb) == MapTerm(Slice0(nb, StoryWords))

\* AppendStory adding at the end of the log
AppendStoryAtEnd(story, prev) == Slice0(prev \o <<story>>, StoryCap)

\* the updater handed to setStoryHistory by handleGenerateStory
AppendStory(story, prev) == Slice0(<<story>> \o prev, StoryCap)

\* getCards of renderFlashcards
GetCards(source, filter, nb) ==
  IF source = "NOTEBOOK" THEN nb
  ELSE SelectSeq(COMMON_VERBS, LAMBDA v :
           filter = "ALL" \/ v.type = FilterToLowerCase(filter))

Cards == GetCards(fcSource, verbFilter, notebook)

\* the empty string shown on the back of a card that has no translation
NoText == 0

\* the fields of a resolver answer that the card faces read: every one of
\* them is optional and nullable in the response schema, independently
Payloads ==
  [is_sentence : BOOLEAN,
   definition : {<<>>, <<1>>},
   sentence_analysis : {<<>>, <<[translation |-> 2]>>}]

\* lookupTerm's entry for the answer [term |-> term] with payload p
LookupEntryWith(term, p, clock) ==
  [id |-> clock, original_query |-> term, term |-> term,
   is_sentence |-> p.is_sentence, definition |-> p.definition,
   sentence_analysis |-> p.sentence_analysis]

\* the front of a card, as renderFlashcards writes it
FrontLabel(card) ==
  IF "term" \in DOMAIN card THEN card.term ELSE card.word

\* the translation renderFlashcards computes for the back of a card
Translation(card) ==
  IF "cn" \in DOMAIN card THEN card.cn
  ELSE IF "sentence_analysis" \in DOMAIN card /\ card.sentence_analysis # <<>>
       THEN card.sentence_analysis[1].translation
  ELSE IF "definition" \in DOMAIN card
       THEN (IF card.definition # <<>> THEN card.definition[1] ELSE NoText)
  ELSE NoText

\* what Date.now() may return next: the clock never runs backwards
Later == {t \in Clock : t >= now}

\* renderFlashcards reads a property of cards[fcIndex] whenever the list is
\* not empty; with the index outside the list that is a TypeError
FlashcardsThrow(source, filter, nb, index) ==
  LET cards == GetCards(source, filter, nb)
  IN  Len(cards) > 0 /\ (index < 0 \/ index >= Len(cards))

RenderThrows ==
  view = "FLASHCARDS" /\ FlashcardsThrow(fcSource, verbFilter, notebook, fcIndex)

\* ------------------------------------------------------------ persistence
\* the keys of the three effects
StorageKeys == {"samba_notebook", "samba_history", "samba_story_history"}

\* the order in which lookupTerm and generateStoryFromWords write the
\* members of their object, which JSON.stringify keeps
MemberOrder ==
  << "id", "original_query", "words_used", "pt_story", "term", "is_sentence",
     "definition", "sentence_analysis" >>

\* StringifyObject leaving out the query the user typed
StringifyObjectWithoutQuery(o) ==
  LET names == SelectSeq(MemberOrder,
                         LAMBDA n : n \in DOMAIN o /\ n # "original_query")
  IN  [i \in 1..Len(names) |-> <<names[i], o[names[i]]>>]

\* JSON.stringify of an object: its members, name and value, in order
StringifyObject(o) ==
  LET names == SelectSeq(MemberOrder, LAMBDA n : n \in DOMAIN o)
  IN  [i \in 1..Len(names) |-> <<names[i], o[names[i]]>>]

\* JSON.parse of an object text
ParseObject(m) ==
  [n \in {m[i][1] : i \in 1..Len(m)} |->
      m[CHOOSE i \in 1..Len(m) : m[i][1] = n][2]]

\* a stored blob: none (getItem returns null), a text that is not JSON, or
\* the JSON text of an array
NoBlob == [kind |-> "none", items |-> <<>>]

GarbageBlob == [kind |-> "garbage", items |-> <<>>]

\* JSON.stringify of a collection
Stringify(list) ==
  [kind |-> "array", items |-> [i \in 1..Len(list) |-> StringifyObject(list[i])]]

\* JSON.parse throws a SyntaxError on a text that is not JSON
ParseThrows(blob) == blob.kind = "garbage"

\* JSON.parse of the text of an array
Parse(blob) == [i \in 1..Len(blob.items) |-> ParseObject(blob.items[i])]

\* what the load effect leaves in a collection whose blob is read: the
\* parsed text if there is one, else the initial []
Loaded(blob) == IF blob.kind = "none" THEN <<>> ELSE Parse(blob)

\* the collection kept under each key
Collections(nb, h, sh) ==
  [k \in StorageKeys |->
     CASE k = "samba_notebook" -> nb
       [] k = "samba_history" -> h
       [] OTHER -> sh]

\* the store after the three persist effects have all run
StoreOf(nb, h, sh) ==
  [k \in StorageKeys |-> Stringify(Collections(nb, h, sh)[k])]

\* persist effects that are put off to a later time
PersistLater(keys) == localStorage' = localStorage

\* the persist effects of a commit in which the collections under keys got
\* a new value; a render that throws commits nothing
Persist(keys) ==
  localStorage' =
    IF crashed' THEN localStorage
    ELSE [k \in StorageKeys |->
            IF k \in keys
            THEN Stringify(Collections(notebook', history', storyHistory')[k])
            ELSE localStorage[k]]

\* a session that was started earlier, from the store it still keeps
Resumed ==
  /\ phase = "running"
  /\ previous = <<>>
  /\ localStorage = StoreOf(notebook, history, storyHistory)

\* App is mounted, its loaded state is rendered and the tree is in place
Alive == phase = "running" /\ ~crashed

\* ------------------------------------------------------------------ audio
\* the AudioButtons of the model: the one of the entry on screen and the one
\* of the story on screen
Buttons == {"entry", "story"}

\* the AudioButton b is rendered: the entry's with the result of the search
\* view (App.tsx:490), the story's with the story card of the notebook view
\* (App.tsx:625-637)
Mounted(b) ==
  /\ phase = "running" /\ ~crashed
  /\ IF b = "entry"
     THEN view = "SEARCH" /\ currentEntry # <<>> /\ ~loading
     ELSE view = "NOTEBOOK" /\ storyData # <<>>

\* the text handed to the AudioButton b
AudioText(b) ==
  IF b = "entry" THEN <<currentEntry[1].term>>
  ELSE IF "pt_story" \in DOMAIN storyData[1] THEN <<storyData[1].pt_story>> ELSE <<>>

\* a commit keeps the state of the AudioButtons it still renders and drops
\* the state of the others, whose pending setPlaying(false) is then lost
AudioKept ==
  LET kept == {b \in Buttons : Mounted(b)'} IN
  /\ playing' = playing \cap kept
  /\ speaking' = [i \in 1..Len(speaking) |->
                    [button |-> speaking[i].button,
                     live |-> speaking[i].live /\ speaking[i].button \in kept]]

\* -------------------------------------------------------------------- Init
Views == {"SEARCH", "NOTEBOOK", "FLASHCARDS"}
Sources == {"NOTEBOOK", "VERBS"}
Filters == {"ALL", "AR", "ER", "IR"}

\* the useState initial values of App, but for the three persisted lists and
\* the current entry
InitApp ==
  /\ view = "SEARCH"
  /\ searchTerm = EmptyString
  /\ loading = FALSE
  /\ storyData = <<>>
  /\ loadingStory = FALSE
  /\ fcIndex = 0
  /\ fcFlipped = FALSE
  /\ fcSource = "NOTEBOOK"
  /\ verbFilter = "ALL"
  /\ lookups = <<>>
  /\ composing = <<>>
  /\ now = 0
  /\ alerted = "none"
  /\ crashed = FALSE
  /\ playing = {}
  /\ speaking = <<>>

\* a process starts: nothing is mounted yet
InitProcess ==
  /\ InitApp /\ currentEntry = <<>> /\ notebook = <<>> /\ history = <<>>
  /\ storyHistory = <<>> /\ appended = <<>>
  /\ phase = "start" /\ previous = <<>>

\* every commit re-renders App; a render that throws unmounts the tree
Render == crashed' = RenderThrows'

\* ----------------------------------------------------------- search view
\* onChange of the search box
SetSearchTerm(q) ==
  /\ Alive /\ view = "SEARCH"
  /\ searchTerm' = q
  /\ UNCHANGED <<view, loading, currentEntry, notebook, history, storyHistory,
                 storyData, loadingStory, fcIndex, fcFlipped, fcSource,
                 verbFilter, lookups, composing, now, alerted, crashed,
                 lookupsLeft, storiesLeft, appended>>
  /\ UNCHANGED <<localStorage, phase, previous>>
  /\ AudioKept

\* handleSearch up to its await
HandleSearch(term) ==
  IF Trim(term) = EmptyString
  THEN UNCHANGED vars
  ELSE /\ lookupsLeft > 0 /\ Len(lookups) < MaxInFlight
       /\ loading' = TRUE
       /\ storyData' = <<>>
       /\ view' = "SEARCH"
       /\ searchTerm' = term
       /\ lookups' = Append(lookups, term)
       /\ lookupsLeft' = lookupsLeft - 1
       /\ UNCHANGED <<currentEntry, notebook, history, storyHistory,
                      loadingStory, fcIndex, fcFlipped, fcSource, verbFilter,
                      composing, now, alerted, storiesLeft, appended,
                      localStorage, phase, previous>>
       /\ Render
       /\ AudioKept

\* Enter in the search box, or the search button
SubmitSearch == Alive /\ view = "SEARCH" /\ HandleSearch(searchTerm)

\* a row of the verb list of the notebook view
ClickVerb(i) == Alive /\ view = "NOTEBOOK" /\ HandleSearch(COMMON_VERBS[i].word)

\* LookupReturns dropping the response of every lookup but the one started
\* last
LookupReturnsLatestOnly(i, data, t) ==
  LET entry == LookupEntry(lookups[i], data, t)
      latest == i = Len(lookups) IN
  /\ Alive
  /\ now' = t
  /\ currentEntry' = IF latest THEN <<entry>> ELSE currentEntry
  /\ history' = IF latest THEN RecordHistory(entry, history) ELSE history
  /\ loading' = FALSE
  /\ lookups' = RemoveAt(lookups, i)
  /\ UNCHANGED <<view, searchTerm, notebook, storyHistory, storyData,
                 loadingStory, fcIndex, fcFlipped, fcSource, verbFilter,
                 composing, alerted, lookupsLeft, storiesLeft, appended>>
  /\ Render
  /\ Persist({"samba_history"})
  /\ UNCHANGED <<phase, previous>>
  /\ AudioKept

\* handleSearch after its await, the i-th pending lookupTerm having returned
\* the response data at instant t
LookupReturns(i, data, t) ==
  LET entry == LookupEntry(lookups[i], data, t) IN
  /\ Alive
  /\ now' = t
  /\ currentEntry' = <<entry>>
  /\ history' = RecordHistory(entry, history)
  /\ loading' = FALSE
  /\ lookups' = RemoveAt(lookups, i)
  /\ UNCHANGED <<view, searchTerm, notebook, storyHistory, storyData,
                 loadingStory, fcIndex, fcFlipped, fcSource, verbFilter,
                 composing, alerted, lookupsLeft, storiesLeft, appended>>
  /\ Render
  /\ Persist({"samba_history"})
  /\ UNCHANGED <<phase, previous>>
  /\ AudioKept

\* handleSearch after its await, the i-th pending lookupTerm having returned
\* at instant t a response that carries the payload p and repeats the input
\* as its term
LookupReturnsPayload(i, p, t) ==
  LET entry == LookupEntryWith(lookups[i], p, t) IN
  /\ Alive
  /\ now' = t
  /\ currentEntry' = <<entry>>
  /\ history' = RecordHistory(entry, history)
  /\ loading' = FALSE
  /\ lookups' = RemoveAt(lookups, i)
  /\ UNCHANGED <<view, searchTerm, notebook, storyHistory, storyData,
                 loadingStory, fcIndex, fcFlipped, fcSource, verbFilter,
                 composing, alerted, lookupsLeft, storiesLeft, appended>>
  /\ Render
  /\ Persist({"samba_history"})
  /\ UNCHANGED <<phase, previous>>
  /\ AudioKept

\* LookupThrows also clearing the entry on screen
LookupThrowsClearing(i) ==
  /\ Alive
  /\ alerted' = "lookup failed"
  /\ currentEntry' = <<>>
  /\ loading' = FALSE
  /\ lookups' = RemoveAt(lookups, i)
  /\ UNCHANGED <<view, searchTerm, notebook, history,
                 storyHistory, storyData, loadingStory, fcIndex, fcFlipped,
                 fcSource, verbFilter, composing, now, lookupsLeft,
                 storiesLeft, appended>>
  /\ Render
  /\ UNCHANGED <<localStorage, phase, previous>>
  /\ AudioKept

\* LookupThrows without the finally that clears loading
LookupThrowsStuck(i) ==
  /\ Alive
  /\ alerted' = "lookup failed"
  /\ lookups' = RemoveAt(lookups, i)
  /\ UNCHANGED <<view, searchTerm, loading, currentEntry, notebook, history,
                 storyHistory, storyData, loadingStory, fcIndex, fcFlipped,
                 fcSource, verbFilter, composing, now, lookupsLeft,
                 storiesLeft, appended>>
  /\ Render
  /\ UNCHANGED <<localStorage, phase, previous>>
  /\ AudioKept

\* handleSearch's catch, the i-th pending lookupTerm having thrown
LookupThrows(i) ==
  /\ Alive
  /\ alerted' = "lookup failed"
  /\ loading' = FALSE
  /\ lookups' = RemoveAt(lookups, i)
  /\ UNCHANGED <<view, searchTerm, currentEntry, notebook, history,
                 storyHistory, storyData, loadingStory, fcIndex, fcFlipped,
                 fcSource, verbFilter, composing, now, lookupsLeft,
                 storiesLeft, appended>>
  /\ Render
  /\ UNCHANGED <<localStorage, phase, previous>>
  /\ AudioKept

\* loadHistoryItem recording the entry it opens, as a lookup does
loadHistoryItemRecording(i) ==
  LET entry == history[i] IN
  /\ Alive /\ view = "SEARCH" /\ currentEntry = <<>> /\ ~loading
  /\ currentEntry' = <<entry>>
  /\ searchTerm' = IF Truthy(entry.original_query)
                   THEN entry.original_query ELSE entry.term
  /\ history' = RecordHistory(entry, history)
  /\ UNCHANGED <<view, loading, notebook, storyHistory, storyData,
                 loadingStory, fcIndex, fcFlipped, fcSource, verbFilter,
                 lookups, composing, now, alerted, crashed, lookupsLeft,
                 storiesLeft, appended>>
  /\ Persist({"samba_history"})
  /\ UNCHANGED <<phase, previous>>
  /\ AudioKept

\* a row of the recent-searches list
loadHistoryItem(i) ==
  LET entry == history[i] IN
  /\ Alive /\ view = "SEARCH" /\ currentEntry = <<>> /\ ~loading
  /\ currentEntry' = <<entry>>
  /\ searchTerm' = IF Truthy(entry.original_query)
                   THEN entry.original_query ELSE entry.term
  /\ UNCHANGED <<view, loading, notebook, history, storyHistory, storyData,
                 loadingStory, fcIndex, fcFlipped, fcSource, verbFilter,
                 lookups, composing, now, alerted, crashed, lookupsLeft,
                 storiesLeft, appended>>
  /\ UNCHANGED <<localStorage, phase, previous>>
  /\ AudioKept

handleClearSearch ==
  /\ Alive /\ view = "SEARCH" /\ Truthy(searchTerm)
  /\ searchTerm' = EmptyString
  /\ currentEntry' = <<>>
  /\ UNCHANGED <<view, loading, notebook, history, storyHistory, storyData,
                 loadingStory, fcIndex, fcFlipped, fcSource, verbFilter,
                 lookups, composing, now, alerted, crashed, lookupsLeft,
                 storiesLeft, appended>>
  /\ UNCHANGED <<localStorage, phase, previous>>
  /\ AudioKept

\* ClearHistory emptying the notebook as well
ClearHistoryAndNotebook ==
  /\ Alive /\ view = "SEARCH" /\ currentEntry = <<>> /\ ~loading
  /\ Len(history) > 0
  /\ history' = <<>>
  /\ notebook' = <<>>
  /\ UNCHANGED <<view, searchTerm, loading, currentEntry,
                 storyHistory, storyData, loadingStory, fcIndex, fcFlipped,
                 fcSource, verbFilter, lookups, composing, now, alerted,
                 crashed, lookupsLeft, storiesLeft, appended>>
  /\ Persist({"samba_history", "samba_notebook"})
  /\ UNCHANGED <<phase, previous>>
  /\ AudioKept

\* the trash button of the recent-searches list
ClearHistory ==
  /\ Alive /\ view = "SEARCH" /\ currentEntry = <<>> /\ ~loading
  /\ Len(history) > 0
  /\ history' = <<>>
  /\ UNCHANGED <<view, searchTerm, loading, currentEntry, notebook,
                 storyHistory, storyData, loadingStory, fcIndex, fcFlipped,
                 fcSource, verbFilter, lookups, composing, now, alerted,
                 crashed, lookupsLeft, storiesLeft, appended>>
  /\ Persist({"samba_history"})
  /\ UNCHANGED <<phase, previous>>
  /\ AudioKept

\* the save button of the header card
toggleSave ==
  /\ Alive /\ view = "SEARCH" /\ currentEntry # <<>> /\ ~loading
  /\ notebook' = ToggleNotebook(currentEntry[1], notebook)
  /\ UNCHANGED <<view, searchTerm, loading, currentEntry, history,
                 storyHistory, storyData, loadingStory, fcIndex, fcFlipped,
                 fcSource, verbFilter, lookups, composing, now, alerted,
                 lookupsLeft, storiesLeft, appended>>
  /\ Render
  /\ Persist({"samba_notebook"})
  /\ UNCHANGED <<phase, previous>>
  /\ AudioKept

\* --------------------------------------------------------- notebook view
\* handleGenerateStory without its check of the notebook length
handleGenerateStoryUnchecked ==
  /\ storiesLeft > 0 /\ Len(composing) < MaxInFlight
  /\ loadingStory' = TRUE
  /\ composing' = Append(composing, StoryWordsOf(notebook))
  /\ storiesLeft' = storiesLeft - 1
  /\ UNCHANGED <<view, searchTerm, loading, currentEntry, notebook,
                 history, storyHistory, storyData, fcIndex, fcFlipped,
                 fcSource, verbFilter, lookups, now, alerted, crashed,
                 lookupsLeft, appended>>
  /\ UNCHANGED <<localStorage, phase, previous>>
  /\ AudioKept

\* handleGenerateStory up to its await
handleGenerateStory ==
  IF Len(notebook) < MinStoryWords
  THEN /\ alerted' = "save 3 words"
       /\ UNCHANGED <<view, searchTerm, loading, currentEntry, notebook,
                      history, storyHistory, storyData, loadingStory, fcIndex,
                      fcFlipped, fcSource, verbFilter, lookups, composing,
                      now, crashed, lookupsLeft, storiesLeft, appended,
                      localStorage, phase, previous, playing, speaking>>
  ELSE /\ storiesLeft > 0 /\ Len(composing) < MaxInFlight
       /\ loadingStory' = TRUE
       /\ composing' = Append(composing, StoryWordsOf(notebook))
       /\ storiesLeft' = storiesLeft - 1
       /\ UNCHANGED <<view, searchTerm, loading, currentEntry, notebook,
                      history, storyHistory, storyData, fcIndex, fcFlipped,
                      fcSource, verbFilter, lookups, now, alerted, crashed,
                      lookupsLeft, appended, localStorage, phase, previous,
                      playing, speaking>>

\* StoryButtonEnabled under one busy flag for lookups and stories
StoryButtonEnabledIdle ==
  /\ view = "NOTEBOOK" /\ storyData = <<>>
  /\ ~(loadingStory \/ loading \/ Len(notebook) < MinStoryWords)

\* StoryButtonEnabled staying enabled while a story is loading
StoryButtonEnabledWhileLoading ==
  /\ view = "NOTEBOOK" /\ storyData = <<>>
  /\ ~(Len(notebook) < MinStoryWords)

\* the story button is rendered while no story is shown, and is disabled
\* while a story is loading or the notebook has fewer than 3 entries
StoryButtonEnabled ==
  /\ view = "NOTEBOOK" /\ storyData = <<>>
  /\ ~(loadingStory \/ Len(notebook) < MinStoryWords)

ClickGenerateStory == Alive /\ StoryButtonEnabled /\ handleGenerateStory

\* handleGenerateStory called whatever the button shows
CallGenerateStory == Alive /\ handleGenerateStory

\* handleGenerateStory after its await, the i-th pending call having returned
\* at instant t
StoryReturns(i, t) ==
  LET story == StoryOf(composing[i], t) IN
  /\ Alive
  /\ now' = t
  /\ storyData' = <<story>>
  /\ storyHistory' = AppendStory(story, storyHistory)
  /\ appended' = Append(appended, story)
  /\ loadingStory' = FALSE
  /\ composing' = RemoveAt(composing, i)
  /\ UNCHANGED <<view, searchTerm, loading, currentEntry, notebook, history,
                 fcIndex, fcFlipped, fcSource, verbFilter, lookups,
                 alerted, crashed, lookupsLeft, storiesLeft>>
  /\ Persist({"samba_story_history"})
  /\ UNCHANGED <<phase, previous>>
  /\ AudioKept

\* handleGenerateStory after its await, the i-th pending call having got a
\* response without text at instant t
StoryReturnsEmpty(i, t) ==
  LET story == EmptyStoryOf(composing[i], t) IN
  /\ Alive
  /\ now' = t
  /\ storyData' = <<story>>
  /\ storyHistory' = AppendStory(story, storyHistory)
  /\ appended' = Append(appended, story)
  /\ loadingStory' = FALSE
  /\ composing' = RemoveAt(composing, i)
  /\ UNCHANGED <<view, searchTerm, loading, currentEntry, notebook, history,
                 fcIndex, fcFlipped, fcSource, verbFilter, lookups,
                 alerted, crashed, lookupsLeft, storiesLeft>>
  /\ Persist({"samba_story_history"})
  /\ UNCHANGED <<phase, previous>>
  /\ AudioKept

\* handleGenerateStory's catch, the i-th pending call having thrown
StoryThrows(i) ==
  /\ Alive
  /\ alerted' = "story failed"
  /\ loadingStory' = FALSE
  /\ composing' = RemoveAt(composing, i)
  /\ UNCHANGED <<view, searchTerm, loading, currentEntry, notebook, history,
                 storyHistory, storyData, fcIndex, fcFlipped, fcSource,
                 verbFilter, lookups, now, crashed, lookupsLeft, storiesLeft,
                 appended>>
  /\ UNCHANGED <<localStorage, phase, previous>>
  /\ AudioKept

\* "close the current story"
CloseStory ==
  /\ Alive /\ view = "NOTEBOOK" /\ storyData # <<>>
  /\ storyData' = <<>>
  /\ UNCHANGED <<view, searchTerm, loading, currentEntry, notebook, history,
                 storyHistory, loadingStory, fcIndex, fcFlipped, fcSource,
                 verbFilter, lookups, composing, now, alerted, crashed,
                 lookupsLeft, storiesLeft, appended>>
  /\ UNCHANGED <<localStorage, phase, previous>>
  /\ AudioKept

\* "view" on a row of the story history list
ViewStory(i) ==
  /\ Alive /\ view = "NOTEBOOK" /\ storyData = <<>>
  /\ storyData' = <<storyHistory[i]>>
  /\ UNCHANGED <<view, searchTerm, loading, currentEntry, notebook, history,
                 storyHistory, loadingStory, fcIndex, fcFlipped, fcSource,
                 verbFilter, lookups, composing, now, alerted, crashed,
                 lookupsLeft, storiesLeft, appended>>
  /\ UNCHANGED <<localStorage, phase, previous>>
  /\ AudioKept

\* a row of the saved list
OpenNotebookEntry(i) ==
  /\ Alive /\ view = "NOTEBOOK"
  /\ currentEntry' = <<notebook[i]>>
  /\ view' = "SEARCH"
  /\ UNCHANGED <<searchTerm, loading, notebook, history, storyHistory,
                 storyData, loadingStory, fcIndex, fcFlipped, fcSource,
                 verbFilter, lookups, composing, now, alerted, crashed,
                 lookupsLeft, storiesLeft, appended>>
  /\ UNCHANGED <<localStorage, phase, previous>>
  /\ AudioKept

\* -------------------------------------------------------- flashcard view
\* setFcSource / setVerbFilter: App renders with the new cards and the old
\* index, and only then the effect on [fcSource, verbFilter] resets the deck
DeckChange(source, filter) ==
  /\ fcSource' = source
  /\ verbFilter' = filter
  /\ IF source = fcSource /\ filter = verbFilter
     THEN UNCHANGED <<fcIndex, fcFlipped, crashed>>
     ELSE IF FlashcardsThrow(source, filter, notebook, fcIndex)
          THEN crashed' = TRUE /\ UNCHANGED <<fcIndex, fcFlipped>>
          ELSE fcIndex' = 0 /\ fcFlipped' = FALSE /\ crashed' = FALSE
  /\ UNCHANGED <<view, searchTerm, loading, currentEntry, notebook, history,
                 storyHistory, storyData, loadingStory, lookups, composing,
                 now, alerted, lookupsLeft, storiesLeft, appended>>
  /\ UNCHANGED <<localStorage, phase, previous>>
  /\ AudioKept

SetFcSource(source) ==
  Alive /\ view = "FLASHCARDS" /\ DeckChange(source, verbFilter)

SetVerbFilter(filter) ==
  Alive /\ view = "FLASHCARDS" /\ fcSource = "VERBS" /\ DeckChange(fcSource, filter)

\* a click on the card
Flip ==
  /\ Alive /\ view = "FLASHCARDS" /\ Len(Cards) > 0
  /\ fcFlipped' = ~fcFlipped
  /\ UNCHANGED <<view, searchTerm, loading, currentEntry, notebook, history,
                 storyHistory, storyData, loadingStory, fcIndex, fcSource,
                 verbFilter, lookups, composing, now, alerted, crashed,
                 lookupsLeft, storiesLeft, appended>>
  /\ UNCHANGED <<localStorage, phase, previous>>
  /\ AudioKept

PrevIndex(i, count) == IF i > 0 THEN i - 1 ELSE count - 1

\* NextIndex without the wrap from the last card to the first
NextIndexNoWrap(i, count) == i + 1

NextIndex(i, count) == IF i < count - 1 THEN i + 1 ELSE 0

\* Previous with its button also there for an empty card list
PreviousOnEmpty ==
  /\ Alive /\ view = "FLASHCARDS"
  /\ fcFlipped' = FALSE
  /\ fcIndex' = PrevIndex(fcIndex, Len(Cards))
  /\ UNCHANGED <<view, searchTerm, loading, currentEntry, notebook, history,
                 storyHistory, storyData, loadingStory, fcSource, verbFilter,
                 lookups, composing, now, alerted, lookupsLeft, storiesLeft,
                 appended>>
  /\ Render
  /\ UNCHANGED <<localStorage, phase, previous>>
  /\ AudioKept

Previous ==
  /\ Alive /\ view = "FLASHCARDS" /\ Len(Cards) > 0
  /\ fcFlipped' = FALSE
  /\ fcIndex' = PrevIndex(fcIndex, Len(Cards))
  /\ UNCHANGED <<view, searchTerm, loading, currentEntry, notebook, history,
                 storyHistory, storyData, loadingStory, fcSource, verbFilter,
                 lookups, composing, now, alerted, lookupsLeft, storiesLeft,
                 appended>>
  /\ Render
  /\ UNCHANGED <<localStorage, phase, previous>>
  /\ AudioKept

NextCard ==
  /\ Alive /\ view = "FLASHCARDS" /\ Len(Cards) > 0
  /\ fcFlipped' = FALSE
  /\ fcIndex' = NextIndex(fcIndex, Len(Cards))
  /\ UNCHANGED <<view, searchTerm, loading, currentEntry, notebook, history,
                 storyHistory, storyData, loadingStory, fcSource, verbFilter,
                 lookups, composing, now, alerted, lookupsLeft, storiesLeft,
                 appended>>
  /\ Render
  /\ UNCHANGED <<localStorage, phase, previous>>
  /\ AudioKept

\* ----------------------------------------------------------------- audio
\* handlePlay of the AudioButton b up to its await; playTTS returns at once,
\* without a call, for a text that is missing or blank
handlePlay(b) ==
  /\ Mounted(b) /\ b \notin playing
  /\ AudioText(b) # <<>>
  /\ Len(speaking) < MaxInFlight
  /\ playing' = playing \cup {b}
  /\ speaking' = Append(speaking, [button |-> b, live |-> TRUE])
  /\ UNCHANGED <<view, searchTerm, loading, currentEntry, notebook, history,
                 storyHistory, storyData, loadingStory, fcIndex, fcFlipped,
                 fcSource, verbFilter, lookups, composing, now, alerted,
                 crashed, lookupsLeft, storiesLeft, appended, localStorage,
                 phase, previous>>

\* handlePlay after its await, the i-th pending playTTS having ended: with
\* the sound started, or with its error caught and logged by playTTS itself
PlayEnds(i) ==
  /\ phase = "running"
  /\ playing' = IF speaking[i].live THEN playing \ {speaking[i].button} ELSE playing
  /\ speaking' = RemoveAt(speaking, i)
  /\ UNCHANGED <<view, searchTerm, loading, currentEntry, notebook, history,
                 storyHistory, storyData, loadingStory, fcIndex, fcFlipped,
                 fcSource, verbFilter, lookups, composing, now, alerted,
                 crashed, lookupsLeft, storiesLeft, appended, localStorage,
                 phase, previous>>

\* ------------------------------------------------------------ navigation
\* the bottom navigation bar
SetView(v) ==
  /\ Alive /\ v # view
  /\ view' = v
  /\ UNCHANGED <<searchTerm, loading, currentEntry, notebook, history,
                 storyHistory, storyData, loadingStory, fcIndex, fcFlipped,
                 fcSource, verbFilter, lookups, composing, now, alerted,
                 lookupsLeft, storiesLeft, appended>>
  /\ Render
  /\ UNCHANGED <<localStorage, phase, previous>>
  /\ AudioKept

\* ---------------------------------------------------------------- startup
\* the keys in the order in which the load effect reads them
LoadOrder == <<"samba_notebook", "samba_history", "samba_story_history">>

\* the first commit of App. The load effect parses the blobs in LoadOrder and
\* hands each parsed value to its setter; the values are rendered by the
\* next commit. The three persist effects belong to the same commit and see
\* the collections of the first render, all []. When a JSON.parse throws,
\* React unmounts the tree, the values already handed over are never
\* rendered, and the remaining effects of the commit are run or skipped
\* depending on the version of React
Mount ==
  LET bad == \E k \in StorageKeys : ParseThrows(localStorage[k])
      get(i) == IF bad THEN <<>> ELSE Loaded(localStorage[LoadOrder[i]])
  IN  /\ phase = "start"
      /\ phase' = "mounted"
      /\ notebook' = get(1)
      /\ history' = get(2)
      /\ storyHistory' = get(3)
      /\ crashed' = bad
      /\ IF bad
         THEN localStorage' \in {localStorage, StoreOf(<<>>, <<>>, <<>>)}
         ELSE localStorage' = StoreOf(<<>>, <<>>, <<>>)
      /\ UNCHANGED <<view, searchTerm, loading, currentEntry, storyData,
                     loadingStory, fcIndex, fcFlipped, fcSource, verbFilter,
                     lookups, composing, now, alerted, lookupsLeft,
                     storiesLeft, appended, previous, playing, speaking>>

\* the second commit: the loaded collections are rendered, and the persist
\* effect of every collection that was given a value writes it
Rehydrate ==
  /\ phase = "mounted" /\ ~crashed
  /\ phase' = "running"
  /\ UNCHANGED <<view, searchTerm, loading, currentEntry, notebook, history,
                 storyHistory, storyData, loadingStory, fcIndex, fcFlipped,
                 fcSource, verbFilter, lookups, composing, now, alerted,
                 lookupsLeft, storiesLeft, appended, previous, playing,
                 speaking>>
  /\ Render
  /\ Persist({k \in StorageKeys :
                Collections(notebook, history, storyHistory)[k] # <<>>})

\* the page is closed or reloaded between two events, and a new process
\* starts on the same store; calls in flight are lost with the old process
Restart ==
  /\ phase = "running" \/ crashed
  /\ Len(previous) < MaxRestarts
  /\ previous' = Append(previous, Collections(notebook, history, storyHistory))
  /\ phase' = "start"
  /\ view' = "SEARCH"
  /\ searchTerm' = EmptyString
  /\ loading' = FALSE
  /\ currentEntry' = <<>>
  /\ notebook' = <<>>
  /\ history' = <<>>
  /\ storyHistory' = <<>>
  /\ storyData' = <<>>
  /\ loadingStory' = FALSE
  /\ fcIndex' = 0
  /\ fcFlipped' = FALSE
  /\ fcSource' = "NOTEBOOK"
  /\ verbFilter' = "ALL"
  /\ lookups' = <<>>
  /\ composing' = <<>>
  /\ alerted' = "none"
  /\ crashed' = FALSE
  /\ playing' = {}
  /\ speaking' = <<>>
  /\ UNCHANGED <<now, lookupsLeft, storiesLeft, appended, localStorage>>

\* ------------------------------------------------------------------ Next
Next ==
  \/ \E q \in Typed : SetSearchTerm(q)
  \/ SubmitSearch
  \/ \E i \in 1..Len(COMMON_VERBS) : ClickVerb(i)
  \/ \E i \in 1..Len(lookups) : \E data \in Answers(lookups[i]) : \E t \in Later : LookupReturns(i, data, t)
  \/ \E i \in 1..Len(lookups) : \E p \in Payloads : \E t \in Later : LookupReturnsPayload(i, p, t)
  \/ \E i \in 1..Len(lookups) : LookupThrows(i)
  \/ \E i \in 1..Len(history) : loadHistoryItem(i)
  \/ handleClearSearch
  \/ ClearHistory
  \/ toggleSave
  \/ ClickGenerateStory
  \/ \E i \in 1..Len(composing) : \E t \in Later : StoryReturns(i, t)
  \/ \E i \in 1..Len(composing) : \E t \in Later : StoryReturnsEmpty(i, t)
  \/ \E i \in 1..Len(composing) : StoryThrows(i)
  \/ CloseStory
  \/ \E i \in 1..Len(storyHistory) : ViewStory(i)
  \/ \E i \in 1..Len(notebook) : OpenNotebookEntry(i)
  \/ \E source \in Sources : SetFcSource(source)
  \/ \E filter \in Filters : SetVerbFilter(filter)
  \/ Flip
  \/ Previous
  \/ NextCard
  \/ \E v \in Views : SetView(v)
  \/ \E b \in Buttons : handlePlay(b)
  \/ \E i \in 1..Len(speaking) : PlayEnds(i)
  \/ Mount
  \/ Rehydrate
  \/ Restart

\* ------------------------------------------------ the history at capacity
\* The session before the modelled part: k lookups of words numbered past
\* the verb catalog's, one per millisecond, the last one at instant -1; with
\* own, the second of them was "word 1" instead.
EarlierWord(j) == NumWords + 2 + j

EarlierEntry(j, k, own) ==
  LET w == IF own /\ j = 2 THEN 1 ELSE EarlierWord(j)
  IN  LookupEntry(<<w, FALSE>>, [term |-> <<w, FALSE>>], j - k - 1)

\* the history after the first j of k earlier lookups
RECURSIVE EarlierHistory(_, _, _)
EarlierHistory(j, k, own) ==
  IF j = 0 THEN <<>>
  ELSE RecordHistory(EarlierEntry(j, k, own), EarlierHistory(j - 1, k, own))

\* a fresh session, or one resumed after HistoryCap lookups
InitHistory ==
  /\ InitApp /\ currentEntry = <<>> /\ notebook = <<>>
  /\ storyHistory = <<>> /\ appended = <<>>
  /\ \E k \in {0, HistoryCap} : \E own \in BOOLEAN :
        history = EarlierHistory(k, k, own)
  /\ lookupsLeft = MaxLookups /\ storiesLeft = 0
  /\ Resumed

NextHistory ==
  \/ \E q \in Typed : SetSearchTerm(q)
  \/ SubmitSearch
  \/ \E i \in 1..Len(lookups) : \E data \in Answers(lookups[i]) : \E t \in Later : LookupReturns(i, data, t)
  \/ \E i \in 1..Len(lookups) : LookupThrows(i)
  \/ handleClearSearch
  \/ ClearHistory

SpecHistory == InitHistory /\ [][NextHistory]_vars

\* ------------------------------------------------------ a large notebook
\* the notebook after the first j of k earlier saves
RECURSIVE EarlierNotebook(_, _, _)
EarlierNotebook(j, k, own) ==
  IF j = 0 THEN <<>>
  ELSE ToggleNotebook(EarlierEntry(j, k, own), EarlierNotebook(j - 1, k, own))

\* a fresh session, or one resumed with HistoryCap saved entries ("word 1"
\* among them) and a cleared history
InitNotebook ==
  /\ InitApp /\ currentEntry = <<>> /\ history = <<>>
  /\ storyHistory = <<>> /\ appended = <<>>
  /\ \E k \in {0, HistoryCap} : notebook = EarlierNotebook(k, k, TRUE)
  /\ lookupsLeft = MaxLookups /\ storiesLeft = 0
  /\ Resumed

\* the lookups of this session all complete within the millisecond it started
\* in: the notebook compares terms only, never ids
NextNotebook ==
  \/ \E q \in Typed : SetSearchTerm(q)
  \/ SubmitSearch
  \/ \E i \in 1..Len(lookups) : \E data \in Answers(lookups[i]) : \E t \in {now} : LookupReturns(i, data, t)
  \/ \E i \in 1..Len(lookups) : LookupThrows(i)
  \/ \E i \in 1..Len(history) : loadHistoryItem(i)
  \/ handleClearSearch
  \/ ClearHistory
  \/ toggleSave

SpecNotebook == InitNotebook /\ [][NextNotebook]_vars

\* ------------------------------------------------------------ the stories
\* the j-th of k earlier stories, told with three earlier words
EarlierStory(j, k) ==
  StoryOf(StoryWordsOf(EarlierNotebook(MinStoryWords, MinStoryWords, FALSE)), j - k - 1)

\* the stories of the earlier session, oldest first
EarlierStories(k) == [j \in 1..k |-> EarlierStory(j, k)]

\* the story log after the first j of k earlier stories
RECURSIVE EarlierStoryHistory(_, _)
EarlierStoryHistory(j, k) ==
  IF j = 0 THEN <<>>
  ELSE AppendStory(EarlierStory(j, k), EarlierStoryHistory(j - 1, k))

\* a session resumed with MinStoryWords or StoryWords + 1 entries saved, the
\* newest of them opened from the saved list, with no story yet or with
\* StoryCap - 1 of them, and a cleared history
InitStory ==
  /\ InitApp /\ history = <<>>
  /\ \E k \in {MinStoryWords, StoryWords + 1} : notebook = EarlierNotebook(k, k, TRUE)
  /\ currentEntry = <<notebook[1]>>
  /\ \E k \in {0, StoryCap - 1} :
        storyHistory = EarlierStoryHistory(k, k) /\ appended = EarlierStories(k)
  /\ lookupsLeft = 0 /\ storiesLeft = MaxStories
  /\ Resumed

NextStory ==
  \/ \E v \in Views : SetView(v)
  \/ toggleSave
  \/ ClickGenerateStory
  \/ \E i \in 1..Len(composing) : \E t \in Later : StoryReturns(i, t)
  \/ \E i \in 1..Len(composing) : StoryThrows(i)
  \/ CloseStory
  \/ \E i \in 1..Len(storyHistory) : ViewStory(i)

SpecStory == InitStory /\ [][NextStory]_vars

\* the same session, the composer also answering without text
NextStoryEmpty ==
  \/ NextStory
  \/ \E i \in 1..Len(composing) : \E t \in Later : StoryReturnsEmpty(i, t)

SpecStoryEmpty == InitStory /\ [][NextStoryEmpty]_vars

\* the same session, with handleGenerateStory also called while its button
\* is disabled or not rendered
NextStoryHandler == NextStory \/ CallGenerateStory

SpecStoryHandler == InitStory /\ [][NextStoryHandler]_vars

\* ---------------------------------------------------- the flashcard deck
\* a session that starts with two or three entries saved earlier, the first
\* of them on screen; no lookup is made
InitDeck ==
  /\ InitApp /\ history = <<>>
  /\ \E k \in {MinStoryWords - 1, MinStoryWords} :
        notebook = EarlierNotebook(k, k, TRUE)
  /\ currentEntry = <<notebook[1]>>
  /\ storyHistory = <<>> /\ appended = <<>>
  /\ lookupsLeft = 0 /\ storiesLeft = 0
  /\ Resumed

NextDeck ==
  \/ \E v \in Views : SetView(v)
  \/ toggleSave
  \/ \E i \in 1..Len(notebook) : OpenNotebookEntry(i)
  \/ \E source \in Sources : SetFcSource(source)
  \/ \E filter \in Filters : SetVerbFilter(filter)
  \/ Flip
  \/ Previous
  \/ NextCard

SpecDeck == InitDeck /\ [][NextDeck]_vars

\* ------------------------------------------------------- the card faces
\* a session that starts with two entries saved earlier, each with any of
\* the payloads a resolver answer may carry
InitCardFaces ==
  /\ InitApp /\ history = <<>>
  /\ \E p1, p2 \in Payloads :
        notebook = << LookupEntryWith(<<EarlierWord(2), FALSE>>, p2, -1),
                      LookupEntryWith(<<EarlierWord(1), FALSE>>, p1, -2) >>
  /\ currentEntry = <<notebook[1]>>
  /\ storyHistory = <<>> /\ appended = <<>>
  /\ lookupsLeft = 0 /\ storiesLeft = 0
  /\ Resumed

SpecCardFaces == InitCardFaces /\ [][NextDeck]_vars

\* -------------------------------------------------------------- the store
\* what a process may find under key k: nothing, a text that is not JSON,
\* or what an earlier session wrote there
StoredBlobs(k) ==
  {NoBlob, GarbageBlob,
   Stringify(Collections(EarlierNotebook(MinStoryWords, MinStoryWords, TRUE),
                         EarlierHistory(2, 2, TRUE),
                         EarlierStoryHistory(1, 1))[k])}

InitStore ==
  localStorage \in {s \in [StorageKeys -> UNION {StoredBlobs(k) : k \in StorageKeys}] :
                      \A k \in StorageKeys : s[k] \in StoredBlobs(k)}

Init ==
  /\ InitProcess /\ InitStore
  /\ lookupsLeft = MaxLookups /\ storiesLeft = MaxStories

Spec == Init /\ [][Next]_vars

\* a process in which one lookup is made and one story is told
InitPersist ==
  /\ InitProcess /\ InitStore
  /\ lookupsLeft = 1 /\ storiesLeft = 1

\* startup, a lookup from the verb list, saving, story telling and restarts
NextPersist ==
  \/ Mount
  \/ Rehydrate
  \/ Restart
  \/ \E v \in {"SEARCH", "NOTEBOOK"} : SetView(v)
  \/ \E i \in 1..Len(COMMON_VERBS) : ClickVerb(i)
  \/ \E i \in 1..Len(lookups) : \E data \in Answers(lookups[i]) : \E t \in Later : LookupReturns(i, data, t)
  \/ handleClearSearch
  \/ ClearHistory
  \/ toggleSave
  \/ ClickGenerateStory
  \/ \E i \in 1..Len(composing) : \E t \in Later : StoryReturns(i, t)

SpecPersist == InitPersist /\ [][NextPersist]_vars

\* ------------------------------------------------------- lookups in flight
\* a session with nothing stored, in which verbs of the catalog are looked
\* up, several at a time, and saved
InitVerbs ==
  /\ InitApp /\ currentEntry = <<>> /\ notebook = <<>> /\ history = <<>>
  /\ storyHistory = <<>> /\ appended = <<>>
  /\ lookupsLeft = MaxLookups /\ storiesLeft = 0
  /\ Resumed

NextVerbs ==
  \/ \E v \in {"SEARCH", "NOTEBOOK"} : SetView(v)
  \/ \E i \in 1..Len(COMMON_VERBS) : ClickVerb(i)
  \/ \E i \in 1..Len(lookups) : \E data \in Answers(lookups[i]) : \E t \in Later : LookupReturns(i, data, t)
  \/ \E i \in 1..Len(lookups) : LookupThrows(i)
  \/ toggleSave

SpecVerbs == InitVerbs /\ [][NextVerbs]_vars

\* ------------------------------------------------------ answers with payload
\* the session of InitVerbs, the resolver answering with any payload its
\* response schema allows
NextPayload ==
  \/ \E v \in {"SEARCH", "NOTEBOOK"} : SetView(v)
  \/ \E i \in 1..Len(COMMON_VERBS) : ClickVerb(i)
  \/ \E i \in 1..Len(lookups) : \E p \in Payloads : \E t \in Later : LookupReturnsPayload(i, p, t)
  \/ toggleSave

SpecPayload == InitVerbs /\ [][NextPayload]_vars

\* -------------------------------------------------- calls of three classes
\* a session resumed with MinStoryWords entries saved, the newest of them
\* opened from the saved list, and one story told earlier; lookups of the
\* first two verbs of the list, one story generation and audio requests are
\* started while others are in flight
InitFlags ==
  /\ InitApp /\ history = <<>>
  /\ notebook = EarlierNotebook(MinStoryWords, MinStoryWords, TRUE)
  /\ currentEntry = <<notebook[1]>>
  /\ storyHistory = EarlierStoryHistory(1, 1) /\ appended = EarlierStories(1)
  /\ lookupsLeft = MaxLookups /\ storiesLeft = 1
  /\ Resumed

NextFlags ==
  \/ \E v \in {"SEARCH", "NOTEBOOK"} : SetView(v)
  \/ \E i \in 1..2 : ClickVerb(i)
  \/ \E i \in 1..Len(lookups) : \E data \in Answers(lookups[i]) : \E t \in {now} : LookupReturns(i, data, t)
  \/ \E i \in 1..Len(lookups) : LookupThrows(i)
  \/ ClickGenerateStory
  \/ \E i \in 1..Len(composing) : \E t \in {now} : StoryReturns(i, t)
  \/ \E i \in 1..Len(composing) : StoryThrows(i)
  \/ CloseStory
  \/ \E i \in 1..Len(storyHistory) : ViewStory(i)
  \/ \E b \in Buttons : handlePlay(b)
  \/ \E i \in 1..Len(speaking) : PlayEnds(i)

SpecFlags == InitFlags /\ [][NextFlags]_vars

\* every external call ends, by returning or by failing
LookupEnds ==
  \E i \in 1..Len(lookups) :
     \/ \E data \in Answers(lookups[i]) : LookupReturns(i, data, now)
     \/ LookupThrows(i)

StoryEnds ==
  \E i \in 1..Len(composing) : StoryReturns(i, now) \/ StoryThrows(i)

AudioEnds == \E i \in 1..Len(speaking) : PlayEnds(i)

\* the same session, no call staying pending for ever
SpecFlagsFair ==
  /\ InitFlags /\ [][NextFlags]_vars
  /\ WF_vars(LookupEnds) /\ WF_vars(StoryEnds) /\ WF_vars(AudioEnds)

\* ------------------------------------------------- the lists of entries
\* a session resumed with two lookups in its history and MinStoryWords
\* entries saved, none of them on screen
InitLists ==
  /\ InitApp /\ currentEntry = <<>>
  /\ history = EarlierHistory(2, 2, TRUE)
  /\ notebook = EarlierNotebook(MinStoryWords, MinStoryWords, TRUE)
  /\ storyHistory = <<>> /\ appended = <<>>
  /\ lookupsLeft = MaxLookups /\ storiesLeft = 0
  /\ Resumed

\* entries are opened from the two lists and closed, and verbs are looked up
NextLists ==
  \/ \E v \in {"SEARCH", "NOTEBOOK"} : SetView(v)
  \/ \E i \in 1..Len(COMMON_VERBS) : ClickVerb(i)
  \/ \E i \in 1..Len(lookups) : \E data \in Answers(lookups[i]) : \E t \in {now} : LookupReturns(i, data, t)
  \/ \E i \in 1..Len(history) : loadHistoryItem(i)
  \/ \E i \in 1..Len(notebook) : OpenNotebookEntry(i)
  \/ handleClearSearch

SpecLists == InitLists /\ [][NextLists]_vars

\* ================================================================ claims
Min(a, b) == IF a <= b THEN a ELSE b

\* a step in which a lookup succeeds, i.e. record(entry) is applied
RecordStep ==
  \E i \in 1..Len(lookups) : \E data \in Answers(lookups[i]) : \E t \in Later : LookupReturns(i, data, t)

\* the positions of H whose term equals e's when letter case is ignored
SameTermAs(e, H) ==
  {i \in 1..Len(H) : ToLowerCase(H[i].term) = ToLowerCase(e.term)}

\* C1: History never holds more than 20 entries, and never two entries
\* whose terms are equal when letter case is ignored.
C1_HistoryBoundedAndDistinct ==
  /\ Len(history) <= HistoryCap
  /\ \A i, j \in 1..Len(history) :
        i # j => ToLowerCase(history[i].term) # ToLowerCase(history[j].term)

\* a full history of other words, in which this session pushed the oldest
\* entry out with "word 1" and then replaced "word 1" by "Word 1"
C1_Witness ==
  /\ Len(history) = HistoryCap /\ lookupsLeft = 0
  /\ history[1].term = <<1, TRUE>> /\ history[1].id >= 0
  /\ history[HistoryCap].term[1] = EarlierWord(2)
  /\ \A i \in 2..Len(history) : history[i].id < 0

\* C2: record(e) yields e, then the entries of the old History whose term
\* differs from e.term whatever the letter case, in their old order, cut to
\* 20; a term already present does not lengthen the History and a full
\* History stays full.
C2_RecordRefreshesToFront ==
  [][RecordStep =>
       LET e == currentEntry'[1]
           D == SameTermAs(e, history)
       IN  /\ Len(history') = Min(HistoryCap, 1 + Len(history) - Cardinality(D))
           /\ history'[1] = e
           /\ \A i \in (1..Len(history)) \ D :
                 LET p == 1 + i - Cardinality({x \in D : x < i})
                 IN  p <= Len(history') => history'[p] = history[i]
           /\ (D # {} => Len(history') <= Len(history))
           /\ (Len(history) = HistoryCap => Len(history') = HistoryCap)]_vars

\* a full history whose second oldest entry, "word 1", was looked up again
\* as "Word 1" in this session
C2_Witness ==
  /\ Len(history) = HistoryCap
  /\ history[1].term = <<1, TRUE>> /\ history[1].id >= 0
  /\ history[HistoryCap].term[1] = EarlierWord(1)
  /\ \A i \in 2..Len(history) : history[i].term[1] # 1 /\ history[i].id < 0

\* C3: a toggle with a current entry either removes the one saved entry with
\* that exact term and adds nothing, or prepends the current entry and
\* removes nothing; the length changes by exactly one, whatever the length.
C3_ToggleInsertsOrRemoves ==
  [][toggleSave =>
       LET e == currentEntry[1] IN
       /\ IF Saved(notebook, e.term)
          THEN \E i \in 1..Len(notebook) :
                  notebook[i].term = e.term /\ notebook' = RemoveAt(notebook, i)
          ELSE notebook' = <<e>> \o notebook
       /\ Len(notebook') - Len(notebook) \in {1, -1}]_vars

\* a notebook longer than any capacity of the program, its newest entry
\* saved in this session
C3_Witness ==
  /\ Len(notebook) > HistoryCap
  /\ notebook[1].id >= 0 /\ currentEntry = <<notebook[1]>>

\* C4 as stated: after a toggle, a second toggle of the same entry gives
\* back the notebook as it was before the first.
C4_ToggleTwiceRestores ==
  [][toggleSave => ToggleNotebook(currentEntry'[1], notebook') = notebook]_vars

\* C4 amended: a second toggle gives back the notebook as it was when the
\* term was not saved before the first; when it was saved, the two toggles
\* leave the current entry first, followed by the other entries in their
\* old order.
C4_ToggleTwice ==
  [][toggleSave =>
       LET e == currentEntry[1]
           twice == ToggleNotebook(currentEntry'[1], notebook')
       IN  IF ~Saved(notebook, e.term)
           THEN twice = notebook
           ELSE /\ twice # <<>> /\ Head(twice) = e
                /\ \E i \in 1..Len(notebook) :
                      notebook[i].term = e.term /\ Tail(twice) = RemoveAt(notebook, i)]_vars

\* "word 1", saved long ago near the end of a long notebook, has been toggled
\* twice with the entry of a new lookup: it is now first, with the new payload
C4_Witness ==
  /\ Len(notebook) = HistoryCap
  /\ notebook[1].term = <<1, FALSE>> /\ notebook[1].id >= 0
  /\ \A i \in 2..Len(notebook) : notebook[i].id < 0

\* C5: no two Notebook entries have the same term, letter case included.
C5_NotebookTermsDistinct ==
  \A i, j \in 1..Len(notebook) : i # j => notebook[i].term # notebook[j].term

\* "word 1" and "Word 1" are saved at the same time
C5_Witness ==
  \E i, j \in 1..Len(notebook) :
     notebook[i].term = <<1, FALSE>> /\ notebook[j].term = <<1, TRUE>>

\* C6: recording a lookup and clearing History leave the Notebook as it is,
\* and a toggle leaves History as it is.
C6_HistoryAndNotebookIndependent ==
  [][/\ (RecordStep \/ ClearHistory) => notebook' = notebook
     /\ toggleSave => history' = history]_vars

\* the history was cleared after lookups while entries of this session stay
\* saved
C6_Witness ==
  /\ history = <<>> /\ lookupsLeft < MaxLookups /\ currentEntry = <<>>
  /\ \E i \in 1..Len(notebook) : notebook[i].id >= 0

\* C7: a call of the story trigger with fewer than 3 saved entries starts
\* no composer call and changes neither the story log, nor the story shown,
\* nor the story-loading flag.
C7_TooFewWordsRejected ==
  [][(Len(notebook) < MinStoryWords /\ CallGenerateStory) =>
       /\ composing' = composing
       /\ storyHistory' = storyHistory /\ appended' = appended
       /\ storyData' = storyData
       /\ loadingStory' = loadingStory]_vars

\* the trigger has been refused with two entries saved
C7_Witness ==
  /\ alerted = "save 3 words"
  /\ Len(notebook) < MinStoryWords
  /\ composing = <<>> /\ ~loadingStory

\* C8: the words sent to the composer are the terms of the first
\* min(10, n) saved entries, in notebook order, at the moment of the trigger
\* (n >= 3), and the story that comes back carries exactly these words,
\* whatever happened to the notebook in between.
C8_StoryWordsAreFirstTen ==
  [][/\ ClickGenerateStory =>
          LET n == Len(notebook)
              sent == composing'[Len(composing')]
          IN  /\ n >= MinStoryWords
              /\ Len(composing') = Len(composing) + 1
              /\ Len(sent) = Min(StoryWords, n)
              /\ \A j \in 1..Len(sent) : sent[j] = notebook[j].term
     /\ \A i \in 1..Len(composing) :
          (\E t \in Later : StoryReturns(i, t)) =>
             /\ storyData'[1].words_used = composing[i]
             /\ storyHistory'[1] = storyData'[1]]_vars

\* a story told with ten of eleven saved words is shown, after its first
\* word was unsaved while the composer was working
C8_Witness ==
  /\ storyData # <<>> /\ storyData[1].id >= 0
  /\ Len(storyData[1].words_used) = StoryWords
  /\ ~Saved(notebook, storyData[1].words_used[1])
  /\ storyData[1].words_used # StoryWordsOf(notebook)
  /\ \A j \in 1..StoryWords : storyData[1].words_used[j] # notebook[Len(notebook)].term

\* C9: the story log holds the min(k, 10) most recent of the k stories
\* appended so far, newest first, equal stories included.
C9_StoryLogKeepsLastTen ==
  /\ Len(storyHistory) = Min(Len(appended), StoryCap)
  /\ \A i \in 1..Len(storyHistory) :
        storyHistory[i] = appended[Len(appended) + 1 - i]

\* eleven stories were appended, the last two of them equal; ten are left
C9_Witness ==
  /\ Len(appended) = StoryCap + 1
  /\ Len(storyHistory) = StoryCap
  /\ storyHistory[1].id >= 0 /\ storyHistory[1] = storyHistory[2]
  /\ storyHistory[StoryCap] = appended[2]

\* C10: whenever the active flashcard list is not empty, the deck index
\* lies in 0 .. count - 1, under any interleaving of deck navigation,
\* source and filter changes, and saving and unsaving.
C10_DeckIndexInRange ==
  Len(Cards) > 0 => (0 <= fcIndex /\ fcIndex < Len(Cards))

\* the app is running, the last card of the NOTEBOOK deck was reached and an
\* entry was then unsaved in the search view: the index is beyond the deck
C10_Witness ==
  /\ ~crashed /\ view = "SEARCH" /\ fcSource = "NOTEBOOK"
  /\ Len(notebook) > 0 /\ fcIndex >= Len(notebook)
  /\ ~Saved(notebook, currentEntry[1].term)

\* C11: every call of setFcSource and every call of setVerbFilter leaves the
\* deck at index 0 with the card unflipped, whatever the index, the flip and
\* the selection were before.
C11_DeckChangeResets ==
  [][((\E source \in Sources : SetFcSource(source)) \/
      (\E filter \in Filters : SetVerbFilter(filter))) =>
        (fcIndex' = 0 /\ fcFlipped' = FALSE)]_vars

\* a verb filter was chosen while a later card of the verb deck was shown:
\* the shorter deck was rendered with the old index and the reset never ran
C11_Witness ==
  /\ crashed /\ view = "FLASHCARDS"
  /\ fcSource = "VERBS" /\ verbFilter # "ALL"
  /\ fcIndex > 0 /\ fcIndex >= Len(Cards)

\* C12: on a deck of count > 0 cards, the next button sets the index to
\* (index + 1) mod count and the previous button to (index - 1 + count) mod
\* count; both leave the card unflipped.
C12_NavigationIsCyclic ==
  [][/\ NextCard =>
          /\ fcIndex' = (fcIndex + 1) % Len(Cards)
          /\ (fcIndex = Len(Cards) - 1 => fcIndex' = 0)
          /\ fcFlipped' = FALSE
     /\ Previous =>
          /\ fcIndex' = (fcIndex - 1 + Len(Cards)) % Len(Cards)
          /\ (fcIndex = 0 => fcIndex' = Len(Cards) - 1)
          /\ fcFlipped' = FALSE]_vars

\* the last card of a notebook deck of three is shown, unflipped, from where
\* the next button wraps to the first
C12_Witness ==
  /\ ~crashed /\ view = "FLASHCARDS" /\ fcSource = "NOTEBOOK"
  /\ Len(Cards) = MinStoryWords /\ fcIndex = Len(Cards) - 1
  /\ fcFlipped = FALSE

\* the card the flashcard view shows
CardShown == ~crashed /\ view = "FLASHCARDS" /\ Len(Cards) > 0

ActiveCard == Cards[fcIndex + 1]

\* C13: the front of the active card is the term of an entry and the word of
\* a static verb; its back is the sentence translation for an entry with
\* is_sentence = true (when it has one), else the definition for an entry,
\* else cn for a static verb.
C13_CardFaces ==
  CardShown =>
    LET card == ActiveCard
    IN  IF fcSource = "NOTEBOOK"
        THEN /\ FrontLabel(card) = card.term
             /\ (card.is_sentence /\ card.sentence_analysis # <<>>) =>
                   Translation(card) = card.sentence_analysis[1].translation
             /\ ~card.is_sentence =>
                   Translation(card) =
                      (IF card.definition # <<>> THEN card.definition[1] ELSE NoText)
        ELSE /\ FrontLabel(card) = card.word
             /\ Translation(card) = card.cn

\* the card shown is a word entry (is_sentence = false) with a definition,
\* whose answer also carried a sentence analysis
C13_Witness ==
  /\ CardShown /\ fcSource = "NOTEBOOK"
  /\ ~ActiveCard.is_sentence
  /\ ActiveCard.definition # <<>> /\ ActiveCard.sentence_analysis # <<>>
  /\ Translation(ActiveCard) # ActiveCard.definition[1]

\* C14: at startup a missing blob, a blob that is not JSON or a blob of the
\* wrong shape gives an empty collection under its key, and startup never
\* ends in a crashed session.
C14_StartupDegradesToEmpty ==
  [][Mount =>
       /\ ~crashed'
       /\ \A k \in StorageKeys :
            localStorage[k].kind # "array" =>
               Collections(notebook', history', storyHistory')[k] = <<>>]_vars

\* a process found a text that is not JSON under the history key and died
\* while mounting; so did the process started after it on the same store
C14_Witness ==
  /\ crashed /\ phase = "mounted" /\ Len(previous) = 1
  /\ localStorage["samba_history"] = GarbageBlob

\* C15: after every step of a running session, the blob under the key of
\* each collection is the serialization of the whole collection, and the
\* blob of a collection the step did not change is the blob it was.
C15_StoreFollowsCollections ==
  [][(Alive /\ Alive') =>
       \A k \in StorageKeys :
          LET before == Collections(notebook, history, storyHistory)[k]
              after == Collections(notebook', history', storyHistory')[k]
          IN  /\ localStorage'[k] = Stringify(after)
              /\ after = before => localStorage'[k] = localStorage[k]]_vars

\* a session that has looked up a verb, saved it as its fourth entry and
\* told a story, the store holding all of it
C15_Witness ==
  /\ Alive
  /\ history # <<>> /\ history[1].id >= 0
  /\ Len(notebook) = MinStoryWords + 1 /\ notebook[1].id >= 0
  /\ storyHistory # <<>> /\ storyHistory[1].id >= 0
  /\ localStorage = StoreOf(notebook, history, storyHistory)

\* C16: the collections a new session renders after startup are, key by
\* key, element by element and in the same order, the collections the
\* session before it ended with.
C16_RestartRestoresCollections ==
  [][(Rehydrate /\ previous # <<>>) =>
       Collections(notebook', history', storyHistory') = previous[Len(previous)]]_vars

\* a restarted session shows the verb the session before it looked up and
\* saved, and the story it told
C16_Witness ==
  /\ Alive /\ Len(previous) = 1
  /\ history # <<>> /\ history[1].id >= 0
  /\ Len(notebook) = MinStoryWords + 1 /\ notebook[1].id >= 0
  /\ storyHistory # <<>> /\ storyHistory[1].id >= 0
  /\ Collections(notebook, history, storyHistory) = previous[1]

\* a step that starts a lookup, and a step in which a lookup fails
LookupStartStep ==
  SubmitSearch \/ \E i \in 1..Len(COMMON_VERBS) : ClickVerb(i)

LookupFailStep == \E i \in 1..Len(lookups) : LookupThrows(i)

\* C17: a lookup that fails changes neither the current entry nor History,
\* Notebook or StoryLog, from its start to its failure, and the failure is
\* shown to the user.
C17_FailedLookupChangesNothing ==
  [][/\ (LookupStartStep \/ LookupFailStep) =>
          UNCHANGED <<currentEntry, history, notebook, storyHistory, localStorage>>
     /\ LookupFailStep => (alerted' = "lookup failed" /\ ~crashed')]_vars

\* the second lookup of a session has failed: the entry of the first is
\* still on screen and at the front of a full History
C17_Witness ==
  /\ alerted = "lookup failed" /\ ~loading /\ lookups = <<>>
  /\ lookupsLeft = 0
  /\ currentEntry # <<>> /\ currentEntry[1].id >= 0
  /\ Len(history) = HistoryCap /\ history[1] = currentEntry[1]

\* a step in which a story generation fails: the call throws, or the
\* composer's response has no text
StoryFailStep ==
  \/ \E i \in 1..Len(composing) : StoryThrows(i)
  \/ \E i \in 1..Len(composing) : \E t \in Later : StoryReturnsEmpty(i, t)

\* C18: a story generation that fails appends no story: StoryLog, current
\* entry, History and Notebook are as they were, and the failure is shown to
\* the user.
C18_FailedStoryChangesNothing ==
  [][StoryFailStep =>
       /\ UNCHANGED <<storyHistory, currentEntry, history, notebook, localStorage>>
       /\ alerted' = "story failed"]_vars

\* a story without text is shown and is the newest of the StoryLog, and no
\* failure was ever shown
C18_Witness ==
  /\ storyData # <<>> /\ "pt_story" \notin DOMAIN storyData[1]
  /\ storyHistory # <<>> /\ storyHistory[1] = storyData[1]
  /\ localStorage["samba_story_history"] = Stringify(storyHistory)
  /\ alerted = "none"

\* C19 as stated: an entry returned by a lookup has an original_query if and
\* only if the raw input differs from its term, and then it is the raw input.
C19_QueryPresentIffDifferent ==
  [][\A i \in 1..Len(lookups) :
        (\E data \in Answers(lookups[i]) : \E t \in Later : LookupReturns(i, data, t)) =>
           LET entry == currentEntry'[1]
           IN  /\ ("original_query" \in DOMAIN entry) <=> (lookups[i] # entry.term)
               /\ ("original_query" \in DOMAIN entry) =>
                     entry.original_query = lookups[i]]_vars

\* C19 amended: every entry returned by a lookup has an original_query, and
\* it is the raw input as typed, also when the raw input is the term.
C19_QueryAlwaysRawInput ==
  [][\A i \in 1..Len(lookups) :
        (\E data \in Answers(lookups[i]) : \E t \in Later : LookupReturns(i, data, t)) =>
           LET entry == currentEntry'[1]
           IN  /\ "original_query" \in DOMAIN entry
               /\ entry.original_query = lookups[i]
               /\ history'[1] = entry]_vars

\* the entry of a lookup whose raw input is its term is on screen, with the
\* input as its original_query
C19_Witness ==
  /\ currentEntry # <<>> /\ currentEntry[1].id >= 0
  /\ "original_query" \in DOMAIN currentEntry[1]
  /\ currentEntry[1].original_query = currentEntry[1].term

\* C20: the entries a session's lookups produce have ids of their own, so
\* the ids of the entries in History are pairwise distinct, and so are the
\* ids of the entries in the Notebook.
C20_IdsDistinct ==
  /\ \A i, j \in 1..Len(history) : i # j => history[i].id # history[j].id
  /\ \A i, j \in 1..Len(notebook) : i # j => notebook[i].id # notebook[j].id

\* two lookups in flight got their answers within the same millisecond: the
\* two entries have one id, are both in History, and both have been saved
C20_Witness ==
  /\ Len(history) = 2 /\ history[1].id = history[2].id
  /\ history[1].term # history[2].term
  /\ Len(notebook) = 2
  /\ \A i \in 1..2 : \E j \in 1..2 : notebook[j] = history[i]

\* the entries on screen, in History and in the Notebook
EntriesKept ==
  {currentEntry[i] : i \in 1..Len(currentEntry)}
    \cup {history[i] : i \in 1..Len(history)}
    \cup {notebook[i] : i \in 1..Len(notebook)}

\* C21: every Entry that is the current entry or is kept in History or in
\* the Notebook has exactly one variant populated, whatever the response
\* contained: a sentence entry has its sentence_analysis and no definition,
\* a word entry has no sentence_analysis.
C21_OneVariantPopulated ==
  \A e \in EntriesKept :
     "is_sentence" \in DOMAIN e =>
        /\ e.is_sentence => (e.sentence_analysis # <<>> /\ e.definition = <<>>)
        /\ ~e.is_sentence => e.sentence_analysis = <<>>

\* an entry flagged as a sentence that has a definition and no
\* sentence_analysis is on screen, at the front of History and saved
C21_Witness ==
  /\ currentEntry # <<>>
  /\ "is_sentence" \in DOMAIN currentEntry[1]
  /\ currentEntry[1].is_sentence
  /\ currentEntry[1].definition # <<>>
  /\ currentEntry[1].sentence_analysis = <<>>
  /\ history # <<>> /\ history[1] = currentEntry[1]
  /\ Saved(notebook, currentEntry[1].term) /\ notebook[1] = currentEntry[1]

\* C22: for each class of external call (lookup, story generation, audio),
\* the loading flag of the class is true in every state in which a call of
\* the class is in flight, also when a second lookup was started before the
\* first completed.
C22_FlagSetWhileInFlight ==
  Alive =>
    /\ lookups # <<>> => loading
    /\ composing # <<>> => loadingStory
    /\ speaking # <<>> => playing # {}

\* the first of two lookups in flight has completed: its entry is on screen
\* with no sign of loading while the second lookup is still awaited
C22_Witness ==
  /\ Alive /\ view = "SEARCH"
  /\ Len(lookups) = 1 /\ lookupsLeft = MaxLookups - 2
  /\ ~loading
  /\ currentEntry # <<>> /\ currentEntry[1].id >= 0

\* the steps of each class of external call: its start and its completion
LookupClassStep == LookupStartStep \/ RecordStep \/ LookupFailStep

StoryClassStep ==
  \/ ClickGenerateStory
  \/ \E i \in 1..Len(composing) : \E t \in Later : StoryReturns(i, t)
  \/ \E i \in 1..Len(composing) : StoryThrows(i)

AudioClassStep ==
  \/ \E b \in Buttons : handlePlay(b)
  \/ \E i \in 1..Len(speaking) : PlayEnds(i)

\* every AudioButton that is on screen before and after the step has the
\* playing it had
SameAudioFlags ==
  \A b \in Buttons : (Mounted(b) /\ Mounted(b)') => (b \in playing' <=> b \in playing)

\* C23, its last part: a step that starts or completes a call of one class
\* leaves the loading flags of the other two classes as they are.
C23_StepsKeepOtherFlags ==
  [][/\ LookupClassStep => (loadingStory' = loadingStory /\ SameAudioFlags)
     /\ StoryClassStep => (loading' = loading /\ SameAudioFlags)
     /\ AudioClassStep => (loading' = loading /\ loadingStory' = loadingStory)]_vars

\* C23, its first part: whatever is in flight in the other classes, a lookup
\* can be started from the verb list and a pending lookup can complete, a
\* story can be asked for as soon as none is loading, and an AudioButton on
\* screen that is not playing can be pressed.
C23_NothingBlocksAnotherClass ==
  Alive =>
    /\ (view = "NOTEBOOK" /\ lookupsLeft > 0 /\ Len(lookups) < MaxInFlight)
          => ENABLED ClickVerb(1)
    /\ lookups # <<>>
          => ENABLED (LookupReturns(1, [term |-> lookups[1]], now) \/ LookupThrows(1))
    /\ (view = "NOTEBOOK" /\ storyData = <<>> /\ ~loadingStory
        /\ Len(notebook) >= MinStoryWords
        /\ storiesLeft > 0 /\ Len(composing) < MaxInFlight)
          => ENABLED ClickGenerateStory
    /\ composing # <<>> => ENABLED (StoryReturns(1, now) \/ StoryThrows(1))
    /\ \A b \in Buttons :
          (Mounted(b) /\ b \notin playing /\ AudioText(b) # <<>>
           /\ Len(speaking) < MaxInFlight) => ENABLED handlePlay(b)
    /\ speaking # <<>> => ENABLED PlayEnds(1)

C24_LastCompletionWins ==
  [][\A i \in 1..Len(lookups) : \A data \in Answers(lookups[i]) : \A t \in Later :
        LookupReturns(i, data, t) =>
           /\ currentEntry' = <<LookupEntry(lookups[i], data, t)>>
           /\ history'[1] = currentEntry'[1]
           /\ \A j \in 1..Len(history) :
                 (ToLowerCase(history[j].term) # ToLowerCase(data.term)
                  /\ Len(history) < HistoryCap) =>
                    \E k \in 2..Len(history') : history'[k] = history[j]]_vars

\* two verbs were looked up at the same time and the answer to the one
\* started first came last: its entry is on screen and first in History,
\* above the entry of the other
C24_Witness ==
  /\ lookups = <<>> /\ lookupsLeft = MaxLookups - 2 /\ alerted = "none"
  /\ Len(history) = 2
  /\ searchTerm = history[2].original_query
  /\ history[1].original_query # searchTerm
  /\ currentEntry = <<history[1]>>
  /\ history[1].id > history[2].id

\* the flashcard view shows an empty card list
EmptyDeck == Alive /\ view = "FLASHCARDS" /\ Len(Cards) = 0

\* C25: while the active card list is empty, next, previous and flip cannot
\* act: no step changes index or flipped as long as the same list stays
\* empty, and the index is never negative.
C25_EmptyDeckIsInert ==
  /\ [](fcIndex >= 0)
  /\ [](EmptyDeck => ~ENABLED (NextCard \/ Previous \/ Flip))
  /\ [][(EmptyDeck /\ EmptyDeck' /\ fcSource' = fcSource) =>
           UNCHANGED <<fcIndex, fcFlipped>>]_vars

\* every card of the notebook deck was removed after the second card had
\* been turned over: the flashcard view shows the empty deck, index and
\* flipped being what they were
C25_Witness ==
  /\ EmptyDeck /\ fcSource = "NOTEBOOK"
  /\ fcIndex = 1 /\ fcFlipped

\* the blob is the text of a collection that is not empty
NonEmptyBlob(blob) == blob.kind = "array" /\ blob.items # <<>>

\* C26: during startup no key whose blob is a non-empty collection is
\* overwritten: from the start of the process to the end of rehydration the
\* store holds under such a key the blob that was stored before.
C26_StartupKeepsStore ==
  [][Mount =>
       \A k \in StorageKeys :
          NonEmptyBlob(localStorage[k]) => localStorage'[k] = localStorage[k]]_vars

\* App is mounted and not yet rendered again: the three collections read
\* from the store are waiting to be rendered, and the store holds an empty
\* collection under each of their keys
C26_Witness ==
  /\ phase = "mounted" /\ ~crashed
  /\ notebook # <<>> /\ history # <<>> /\ storyHistory # <<>>
  /\ \A k \in StorageKeys : localStorage[k] = Stringify(<<>>)

\* C27: the three blobs are loaded independently of each other: a blob
\* that is missing or is not JSON under one key does not keep the blobs
\* under the other keys from being loaded into their collections and shown.
C27_BlobsLoadIndependently ==
  [][Mount =>
       \A k \in StorageKeys :
          localStorage[k].kind = "array" =>
             /\ Collections(notebook', history', storyHistory')[k] = Parse(localStorage[k])
             /\ ~crashed']_vars

\* the blob of the history is not JSON: the process died while mounting and
\* the notebook, whose blob is still in the store, was not loaded
C27_Witness ==
  /\ phase = "mounted" /\ crashed
  /\ localStorage["samba_history"] = GarbageBlob
  /\ NonEmptyBlob(localStorage["samba_notebook"])
  /\ NonEmptyBlob(localStorage["samba_story_history"])
  /\ notebook = <<>> /\ storyHistory = <<>>

\* C28: opening an entry from the History list or from the Notebook list
\* makes it the current entry and does nothing else to the session's data:
\* no resolver call is started, and History (contents and order), Notebook,
\* StoryLog and the store are as they were.
C28_OpeningOnlyShows ==
  [][/\ \A i \in 1..Len(history) :
          loadHistoryItem(i) => currentEntry' = <<history[i]>>
     /\ \A i \in 1..Len(notebook) :
          OpenNotebookEntry(i) => currentEntry' = <<notebook[i]>>
     /\ ((\E i \in 1..Len(history) : loadHistoryItem(i))
         \/ (\E i \in 1..Len(notebook) : OpenNotebookEntry(i))) =>
           UNCHANGED <<history, notebook, storyHistory, localStorage, lookups,
                       lookupsLeft, loading, composing, loadingStory>>]_vars

\* the second entry of the History list was opened: it is on screen, its
\* query is in the search box, and it is still second in History
C28_Witness ==
  /\ Alive /\ view = "SEARCH" /\ lookupsLeft = MaxLookups
  /\ Len(history) = 2 /\ currentEntry = <<history[2]>>
  /\ searchTerm = history[2].original_query
  /\ history = EarlierHistory(2, 2, TRUE)

\* C29: at most one story generation is in flight at any time: while the
\* story-loading flag is set the trigger starts no other call, so each
\* completion appends the one story that was asked for, the StoryLog growing
\* by at most one, and the stories are appended in the order of the triggers.
C29_OneStoryAtATime ==
  /\ [](Len(composing) <= 1 /\ (loadingStory <=> composing # <<>>))
  /\ [](loadingStory => ~ENABLED ClickGenerateStory)
  /\ [][\A i \in 1..Len(composing) : \A t \in Later :
          StoryReturns(i, t) =>
             /\ Len(storyHistory') <= Len(storyHistory) + 1
             /\ storyHistory'[1] = StoryOf(composing[1], t)
             /\ appended' = Append(appended, storyHistory'[1])
             /\ composing' = <<>>]_vars

\* the second story of the session is being composed, the trigger is on
\* screen with enough entries saved, and the first story is in the StoryLog
C29_Witness ==
  /\ Alive /\ view = "NOTEBOOK" /\ storyData = <<>>
  /\ Len(notebook) >= MinStoryWords
  /\ loadingStory /\ Len(composing) = 1
  /\ storyHistory # <<>> /\ storyHistory[1].id >= 0

\* C30: if every external call ends, a lookup in flight and a story
\* generation in flight are followed by a state with none in flight, and in
\* every state in which no call of a class is in flight the loading flag of
\* the class is false, the calls having succeeded or failed.
C30_CallsEndAndFlagsClear ==
  /\ [](lookups = <<>> => ~loading)
  /\ [](composing = <<>> => ~loadingStory)
  /\ [](speaking = <<>> => playing = {})
  /\ (lookups # <<>>) ~> (lookups = <<>>)
  /\ (composing # <<>>) ~> (composing = <<>>)

\* every lookup and the story generation of the session have ended, the
\* last of them by failing, and so has every audio request: no flag is set
C30_Witness ==
  /\ Alive /\ lookupsLeft = 0 /\ storiesLeft = 0
  /\ lookups = <<>> /\ composing = <<>> /\ speaking = <<>>
  /\ alerted # "none"
  /\ ~loading /\ ~loadingStory /\ playing = {}
  /\ history # <<>> /\ history[1].id >= 0

====
